---- MODULE Spec2Model ----
(***************************************************************************)
(* Verification model of the Sign2Speech backend (src/backend).            *)
(*                                                                         *)
(* Four specifications share the module's variables:                       *)
(*   SpecGetters  - the lazy model caches of spamo_service.py and          *)
(*                  translation_service.py, called from several threads;   *)
(*   SpecPipeline - the request handlers of main.py and translate_frames;  *)
(*   SpecWindow   - VideoMAEFeatureExtractor.get_feats' windowing;         *)
(*   SpecEncode   - pose_converter.landmarks_to_numpy.                     *)
(***************************************************************************)
EXTENDS Integers, Sequences, FiniteSets, TLC

VARIABLES
    \* ---- model caches (spamo_service.py:26-30, translation_service.py:20)
    cache,          \* kind -> None or the cached handle
    cudaAvailable,  \* what torch.cuda.is_available() answers right now
    built,          \* kind -> number of objects constructed so far
    failed,         \* number of constructor calls that raised so far
    tpc,            \* thread -> position inside the getter
    tkind,          \* thread -> the kind of the getter it is running
    tlocal,         \* thread -> the object it has constructed, not yet stored
    tret,           \* thread -> sequence of what its getter calls returned
    tcalls,         \* getter calls made so far, over all threads
    \* ---- one request at a time through main.py / translate_frames
    req,            \* the request being served
    ppc,            \* position of the handler: the stage about to run
    calls,          \* the collaborators invoked for this request, in order
    tiers,          \* what segment_pose returned
    annotations,    \* sign_annotations handed to the transcription
    swlist,         \* signwriting_list
    translations,   \* translations
    resp,           \* what the caller receives
    feats,          \* translate_frames: feature counts extracted so far
    failedAt,       \* the stage whose call raised, "" when none did
    nreq,           \* requests received so far
    \* ---- VideoMAEFeatureExtractor.get_feats called on its own
    wframes,        \* the frames handed to get_feats
    wchunks,        \* the chunks it built, or the exception it raised
    \* ---- landmarks_to_numpy called on its own
    eframes,        \* the frame dicts
    edims,          \* width and height
    etensor,        \* the arrays it returned: data and confidence
    \* ---- the frame <-> millisecond conversions called on their own
    cframe,         \* the frame index
    cfps,           \* the frame rate
    cms,            \* int(frame / fps * 1000), -1 before it is computed
    cback,          \* int(ms / 1000 * fps), -1 before it is computed
    \* ---- _extract_segments called on its own
    xsegments,      \* the records of one tier
    xfps,           \* the frame rate
    xresult         \* what it returned

gvars == <<cache, cudaAvailable, built, failed, tpc, tkind, tlocal, tret, tcalls>>
tvars == <<tpc, tkind, tlocal, tret, tcalls>>
pvars == <<req, ppc, calls, tiers, annotations, swlist, translations, resp,
           feats, failedAt, nreq>>
wvars == <<wframes, wchunks>>
evars == <<eframes, edims, etensor>>
cvars == <<cframe, cfps, cms, cback>>
xvars == <<xsegments, xfps, xresult>>
vars == <<gvars, pvars, wvars, evars, cvars, xvars>>

\* ---------------------------------------------------------------- bounds
NumThreads == 2
MaxCalls == 2
MaxBuilt == 2
MaxFailed == 1
MaxRequests == 1
MaxSegs == 2
MaxOut == 2
MaxSentences == 1
MaxF == 64
MaxExtra == 1
MaxSeed == 1

Threads == 1..NumThreads

\* ------------------------------------------------------------ model caches
None == [none |-> TRUE]

GlobalKinds == {"vit", "mae", "spamo"}
Kinds == GlobalKinds \cup {"translator"}

\* get_device(): asked anew at every construction.
get_device == IF cudaAvailable THEN "cuda:0" ELSE "cpu"

Handle(k, n, d) == [kind |-> k, id |-> n, device |-> d]

\* What the caller of a getter gets when the constructor raised.
ModelUnavailable(k) == [error |-> "ModelUnavailable", kind |-> k]

\* Variant: the getter constructs whatever the cache holds.
GetterMustBuild_Always(k) == TRUE

\* `if _vit_reader is None:` and the lru_cache lookup of get_translator: a
\* hit returns the cached handle, a miss goes on to the constructor.  Nothing
\* is held between the test and the assignment.
GetterMustBuild(k) == cache[k] = None

GetterEnter(t, k) ==
    /\ tpc[t] = "idle"
    /\ tcalls < MaxCalls
    /\ tcalls' = tcalls + 1
    /\ tkind' = [tkind EXCEPT ![t] = k]
    /\ IF GetterMustBuild(k)
         THEN /\ tpc' = [tpc EXCEPT ![t] = "construct"]
              /\ tret' = tret
         ELSE /\ tpc' = tpc
              /\ tret' = [tret EXCEPT ![t] = Append(@, cache[k])]
    /\ UNCHANGED <<cache, cudaAvailable, built, failed, tlocal, pvars, wvars, evars, cvars, xvars>>

\* The constructor (ViTFeatureExtractor(device=get_device()), ...,
\* load_sockeye_translator(MODEL_ID)) runs to completion.
Construct(t) ==
    /\ tpc[t] = "construct"
    /\ built[tkind[t]] < MaxBuilt
    /\ built' = [built EXCEPT ![tkind[t]] = @ + 1]
    /\ tlocal' = [tlocal EXCEPT ![t] =
                     Handle(tkind[t], built[tkind[t]] + 1, get_device)]
    /\ tpc' = [tpc EXCEPT ![t] = "store"]
    /\ UNCHANGED <<cache, cudaAvailable, failed, tkind, tret, tcalls, pvars, wvars, evars, cvars, xvars>>

\* Variant: the failure is remembered in the cache.
ConstructFail_Cached(t) ==
    /\ tpc[t] = "construct"
    /\ failed < MaxFailed
    /\ failed' = failed + 1
    /\ cache' = [cache EXCEPT ![tkind[t]] = ModelUnavailable(tkind[t])]
    /\ tpc' = [tpc EXCEPT ![t] = "idle"]
    /\ tret' = [tret EXCEPT ![t] = Append(@, ModelUnavailable(tkind[t]))]
    /\ UNCHANGED <<cudaAvailable, built, tkind, tlocal, tcalls, pvars, wvars,
                   evars, cvars, xvars>>

\* The constructor raises (weights missing, download failed, ...): the
\* exception leaves the getter, nothing is assigned.
ConstructFail(t) ==
    /\ tpc[t] = "construct"
    /\ failed < MaxFailed
    /\ failed' = failed + 1
    /\ tpc' = [tpc EXCEPT ![t] = "idle"]
    /\ tret' = [tret EXCEPT ![t] = Append(@, ModelUnavailable(tkind[t]))]
    /\ UNCHANGED <<cache, cudaAvailable, built, tkind, tlocal, tcalls, pvars, wvars, evars, cvars, xvars>>

\* What the cache holds after the getter stores the object o it has built.
\* The three module globals are assigned unconditionally; functools.lru_cache
\* keeps the entry that another call added while the function was running.
StoreResult(k, cur, o) ==
    IF k \in GlobalKinds THEN o
    ELSE IF cur = None THEN o ELSE cur

Store(t) ==
    /\ tpc[t] = "store"
    /\ cache' = [cache EXCEPT ![tkind[t]] = StoreResult(tkind[t], @, tlocal[t])]
    /\ tpc' = [tpc EXCEPT ![t] = "return"]
    /\ UNCHANGED <<cudaAvailable, built, failed, tkind, tlocal, tret, tcalls,
                   pvars, wvars, evars, cvars, xvars>>

\* `return _vit_reader` reads the global again; the lru_cache wrapper returns
\* the result of its own call.
Return(t) ==
    /\ tpc[t] = "return"
    /\ tret' = [tret EXCEPT ![t] =
                   Append(@, IF tkind[t] \in GlobalKinds
                               THEN cache[tkind[t]] ELSE tlocal[t])]
    /\ tlocal' = [tlocal EXCEPT ![t] = None]
    /\ tpc' = [tpc EXCEPT ![t] = "idle"]
    /\ UNCHANGED <<cache, cudaAvailable, built, failed, tkind, tcalls, pvars, wvars, evars, cvars, xvars>>

\* The environment: the CUDA device appears or disappears.
DeviceChange ==
    /\ cudaAvailable' = ~cudaAvailable
    /\ UNCHANGED <<cache, built, failed, tvars, pvars, wvars, evars, cvars, xvars>>

CacheEmpty ==
    /\ cache = [k \in Kinds |-> None]
    /\ built = [k \in Kinds |-> 0]
    /\ failed = 0

CacheInit == CacheEmpty /\ cudaAvailable \in BOOLEAN

ThreadsInit ==
    /\ tpc = [t \in Threads |-> "idle"]
    /\ tkind = [t \in Threads |-> "vit"]
    /\ tlocal = [t \in Threads |-> None]
    /\ tret = [t \in Threads |-> <<>>]
    /\ tcalls = 0

NoRequest == [ep |-> "", nframes |-> 0, fps |-> 0]
NoTiers == [SIGN |-> <<>>, SENTENCE |-> <<>>]
NoFeats == [spatial |-> 0, motion |-> 0]

PipelineIdle ==
    /\ req = NoRequest
    /\ ppc = "idle"
    /\ calls = <<>>
    /\ tiers = NoTiers
    /\ annotations = <<>>
    /\ swlist = <<>>
    /\ translations = <<>>
    /\ resp = None
    /\ feats = NoFeats
    /\ failedAt = ""

NotRun == [raised |-> "notrun", chunks |-> <<>>]
NotEncoded == [data |-> <<>>, confidence |-> <<>>]

WindowIdle == wframes = <<>> /\ wchunks = NotRun

EncodeIdle == eframes = <<>> /\ edims = [width |-> 0, height |-> 0] /\ etensor = NotEncoded

ConvertIdle == cframe = 0 /\ cfps = 0 /\ cms = -1 /\ cback = -1

NotExtracted == [raised |-> "notrun", boundaries |-> <<>>]

ExtractIdle == xsegments = <<>> /\ xfps = 0 /\ xresult = NotExtracted

GInit ==
    /\ CacheInit /\ ThreadsInit /\ PipelineIdle /\ nreq = 0
    /\ WindowIdle /\ EncodeIdle /\ ConvertIdle /\ ExtractIdle

GNext ==
    \/ \E t \in Threads, k \in Kinds : GetterEnter(t, k)
    \/ \E t \in Threads : Construct(t)
    \/ \E t \in Threads : ConstructFail(t)
    \/ \E t \in Threads : Store(t)
    \/ \E t \in Threads : Return(t)
    \/ DeviceChange

SpecGetters == GInit /\ [][GNext]_vars

\* ---- the getters called one after the other: a call is only made when no
\* other call is under way.
GetterEnterAlone(t, k) ==
    /\ \A u \in Threads : tpc[u] = "idle"
    /\ GetterEnter(t, k)

SNext ==
    \/ \E t \in Threads, k \in Kinds : GetterEnterAlone(t, k)
    \/ \E t \in Threads : Construct(t)
    \/ \E t \in Threads : ConstructFail(t)
    \/ \E t \in Threads : Store(t)
    \/ \E t \in Threads : Return(t)
    \/ DeviceChange

SpecSequential == GInit /\ [][SNext]_vars

\* ------------------------------------------------------------- windowing
WindowSize == 16
OverlapSize == 8

\* range(0, len(data_list), step_size) filtered by i + window_size <= len.
RECURSIVE WindowsFrom(_, _, _, _)
WindowsFrom(data_list, i, window_size, step_size) ==
    IF i >= Len(data_list) THEN <<>>
    ELSE (IF i + window_size <= Len(data_list)
            THEN <<SubSeq(data_list, i + 1, i + window_size)>>
            ELSE <<>>)
         \o WindowsFrom(data_list, i + step_size, window_size, step_size)

\* Variant: the windows do not overlap.
sliding_window_NoOverlap(data_list, window_size, overlap_size) ==
    WindowsFrom(data_list, 0, window_size, window_size)

sliding_window_for_list(data_list, window_size, overlap_size) ==
    WindowsFrom(data_list, 0, window_size, window_size - overlap_size)

\* Variant: the clip is padded with its first frame.
PadFrames_First(frames) ==
    IF Len(frames) < WindowSize
      THEN frames \o [j \in 1..(WindowSize - Len(frames)) |-> frames[1]]
      ELSE frames

\* frames + [frames[-1]] * (16 - len(frames))
PadFrames(frames) ==
    IF Len(frames) < WindowSize
      THEN frames \o [j \in 1..(WindowSize - Len(frames)) |-> frames[Len(frames)]]
      ELSE frames

\* The chunks VideoMAEFeatureExtractor.get_feats hands to the model, one
\* feature row per chunk; frames[-1] on an empty list raises IndexError.
IndexError == [raised |-> "IndexError", chunks |-> <<>>]

Chunks(chunks) == [raised |-> "", chunks |-> chunks]

get_feats_chunks(frames) ==
    IF Len(frames) = 0 THEN IndexError
    ELSE LET padded == PadFrames(frames)
             chunks == sliding_window_for_list(padded, WindowSize, OverlapSize)
         IN  IF chunks = <<>> THEN Chunks(<<SubSeq(padded, 1, WindowSize)>>)
             ELSE Chunks(chunks)

\* A clip of F frames, each frame named by its index.
Clip(F) == [j \in 1..F |-> j - 1]

\* ------------------------------------------------- double arithmetic
\* A positive double is its 53 significand bits, most significant first,
\* and the exponent of the last bit: the value is bits * 2^exp.  The
\* operands of the conversions are small integers, so a quotient is built by
\* long division and a product by carrying, and only the bits are long.
DoubleBits == 53

FloatZero == [bits |-> <<>>, exp |-> 0]

RECURSIVE BitLen(_)
BitLen(m) == IF m = 0 THEN 0 ELSE 1 + BitLen(m \div 2)

\* The c-bit binary numeral of v, and the value of a numeral; a numeral
\* turned into an int is short enough to fit one.
IntToBits(v, c) == [i \in 1..c |-> (v \div 2^(c - i)) % 2]

RECURSIVE BitsToInt(_)
BitsToInt(bits) ==
    IF bits = <<>> THEN 0
    ELSE 2 * BitsToInt(SubSeq(bits, 1, Len(bits) - 1)) + bits[Len(bits)]

\* How many bits are handled in one step of a long division or product.
ChunkBits == 9

\* bits + 1; a carry out of the first bit lengthens the sequence by one.
BitsIncrement(bits) ==
    IF \A i \in 1..Len(bits) : bits[i] = 1
      THEN <<1>> \o [i \in 1..Len(bits) |-> 0]
      ELSE LET j == CHOOSE i \in 1..Len(bits) :
                        bits[i] = 0 /\ \A h \in (i + 1)..Len(bits) : bits[h] = 1
           IN  [i \in 1..Len(bits) |->
                   IF i < j THEN bits[i] ELSE IF i = j THEN 1 ELSE 0]

\* Round to nearest, ties to even: bits are the first 53 bits of the exact
\* result, round the bit after them, sticky whether anything follows.
RoundNearestEven(bits, exp, round, sticky) ==
    IF round = 1 /\ (sticky \/ bits[Len(bits)] = 1)
      THEN LET up == BitsIncrement(bits)
           IN  IF Len(up) > Len(bits)
                 THEN [bits |-> SubSeq(up, 1, Len(bits)), exp |-> exp + 1]
                 ELSE [bits |-> up, exp |-> exp]
      ELSE [bits |-> bits, exp |-> exp]

\* The next n bits of the quotient r / d (r < d) and the remainder left.
RECURSIVE QuotientBits(_, _, _)
QuotientBits(r, d, n) ==
    IF n = 0 THEN [bits |-> <<>>, rem |-> r]
    ELSE LET c == IF n >= ChunkBits THEN ChunkBits ELSE n
             rest == QuotientBits((r * 2^c) % d, d, n - c)
         IN  [bits |-> IntToBits((r * 2^c) \div d, c) \o rest.bits,
              rem |-> rest.rem]

\* The k with d * 2^k <= n < d * 2^(k+1), for n >= d.
RECURSIVE ShiftUp(_, _)
ShiftUp(n, d) == IF 2 * d <= n THEN 1 + ShiftUp(n, 2 * d) ELSE 0

\* a / b for integers a >= 0, b > 0, correctly rounded.
FloatDiv(a, b) ==
    IF a = 0 THEN FloatZero
    ELSE LET k == IF a >= b THEN ShiftUp(a, b) ELSE -ShiftUp(b - 1, a) - 1
             n == IF k >= 0 THEN a ELSE a * 2^(-k)
             d == IF k >= 0 THEN b * 2^k ELSE b
             q == QuotientBits(n - d, d, DoubleBits)
         IN  RoundNearestEven(<<1>> \o SubSeq(q.bits, 1, DoubleBits - 1),
                              k - (DoubleBits - 1),
                              q.bits[DoubleBits],
                              q.rem # 0)

\* bits * k + c, the last bits first and the carry handed on.
RECURSIVE TimesInt(_, _, _)
TimesInt(bits, k, c) ==
    IF bits = <<>> THEN IntToBits(c, BitLen(c))
    ELSE LET m == IF Len(bits) >= ChunkBits THEN ChunkBits ELSE Len(bits)
             t == BitsToInt(SubSeq(bits, Len(bits) - m + 1, Len(bits))) * k + c
         IN  TimesInt(SubSeq(bits, 1, Len(bits) - m), k, t \div 2^m)
                \o IntToBits(t % 2^m, m)

\* x * k for a double x and an integer k > 0, correctly rounded.
FloatMulInt(x, k) ==
    IF x = FloatZero THEN FloatZero
    ELSE LET p == TimesInt(x.bits, k, 0)
             s == Len(p) - DoubleBits
         IN  IF s = 0 THEN [bits |-> p, exp |-> x.exp]
             ELSE RoundNearestEven(SubSeq(p, 1, DoubleBits), x.exp + s,
                                   p[DoubleBits + 1],
                                   \E j \in (DoubleBits + 2)..Len(p) : p[j] = 1)

\* int(x): the integer part; the values converted here fit an int.
Trunc(x) ==
    IF x = FloatZero \/ x.exp <= -DoubleBits THEN 0
    ELSE IF x.exp >= 0 THEN BitsToInt(x.bits) * 2^x.exp
    ELSE BitsToInt(SubSeq(x.bits, 1, DoubleBits + x.exp))

\* ------------------------------------------------------- segment records
\* A number the oracle returns is kept in half frames, so that 20.5 is 41.
\* int() truncates; the numbers here are never negative.
int(v) == v \div 2
IsIntegral(v) == v % 2 = 0

\* A record as _extract_segments and the handlers look at it: shape is what
\* isinstance tells (a dict, a tuple or list, anything else), keys whether
\* both 'start' and 'end' are keys of it, len its length as a sequence,
\* attrs whether it has both attributes; start / end are what the keys or
\* the first two positions hold, astart / aend what the attributes hold.
Record(shape, keys, len, attrs, s, e, as, ae) ==
    [shape |-> shape, keys |-> keys, len |-> len, attrs |-> attrs,
     start |-> s, end |-> e, astart |-> as, aend |-> ae]

Dict(s, e) == Record("dict", TRUE, 2, FALSE, s, e, 0, 0)
Pair(s, e) == Record("seq", FALSE, 2, FALSE, s, e, 0, 0)
Attr(s, e) == Record("obj", FALSE, 0, TRUE, 0, 0, s, e)
Malformed == Record("obj", FALSE, 0, FALSE, 0, 0, 0, 0)
\* a named tuple whose fields start / end are not its first two positions
NamedPair(s, e, as, ae) == Record("seq", FALSE, 2, TRUE, s, e, as, ae)
\* a dict (subclass) without the keys, with or without the attributes
DictNoKeys(attrs, as, ae) == Record("dict", FALSE, 1, attrs, 0, 0, as, ae)
\* a sequence of one item
Single(s) == Record("seq", FALSE, 1, FALSE, s, 0, 0, 0)

SegmentPool == {Dict(0, 30), Dict(40, 80), Dict(41, 80), Dict(60, 60),
                Pair(0, 30), Malformed}
SentencePool == {Dict(0, 90), Attr(0, 90)}

SeqsUpTo(S, n) == UNION {[1..k -> S] : k \in 0..n}

TierChoices == [SIGN : SeqsUpTo(SegmentPool, MaxSegs),
                SENTENCE : SeqsUpTo(SentencePool, MaxSentences)]

\* Variant: the time is truncated to the thousandth.
Round3_Truncated(frame, fps) == (1000 * frame) \div fps

\* round(frame / fps, 3) in thousandths of a second.  Python rounds the
\* double frame/fps to the nearest thousandth, ties to even; for the fps
\* values used here the quotient is a tie only when it is exact in binary.
Round3(frame, fps) ==
    LET q == (1000 * frame) \div fps
        r == (1000 * frame) % fps
    IN  IF 2 * r > fps THEN q + 1
        ELSE IF 2 * r < fps THEN q
        ELSE IF q % 2 = 0 THEN q ELSE q + 1

Boundary(sf, ef, fps) ==
    [start_frame |-> sf, end_frame |-> ef,
     start_time |-> Round3(sf, fps), end_time |-> Round3(ef, fps)]

\* Variant: the attributes are tried before the positions.
ResolvedFrames_AttrsFirst(segment) ==
    IF segment.shape = "dict" /\ segment.keys
      THEN <<int(segment.start), int(segment.end)>>
    ELSE IF segment.attrs
      THEN <<int(segment.astart), int(segment.aend)>>
    ELSE IF segment.shape = "seq" /\ segment.len >= 2
      THEN <<int(segment.start), int(segment.end)>>
    ELSE <<>>

\* The if / elif / elif / else of _extract_segments: the frames of the
\* record, <<>> for a record that is skipped.
ResolvedFrames(segment) ==
    IF segment.shape = "dict" /\ segment.keys
      THEN <<int(segment.start), int(segment.end)>>
    ELSE IF segment.shape = "seq" /\ segment.len >= 2
      THEN <<int(segment.start), int(segment.end)>>
    ELSE IF segment.attrs
      THEN <<int(segment.astart), int(segment.aend)>>
    ELSE <<>>

Resolvable(segment) == ResolvedFrames(segment) # <<>>

RECURSIVE extract_segments(_, _)
extract_segments(segments, fps) ==
    IF segments = <<>> THEN <<>>
    ELSE LET frames == ResolvedFrames(Head(segments))
         IN  (IF frames # <<>>
                THEN <<Boundary(frames[1], frames[2], fps)>>
                ELSE <<>>)
             \o extract_segments(Tail(segments), fps)

\* --------------------------------------------------------------- texts
\* A text is a sequence of tokens; "@@" is the sub-word join marker.
\* The i-th string a collaborator returns: what the strings are does not
\* steer the handlers, how many come back does.
Notation(i) == IF i % 2 = 1 THEN "M1" ELSE "M2"
RawText(i) == IF i % 2 = 1 THEN <<"hello">> ELSE <<"wor", "@@", "ld">>

Notations(k) == [i \in 1..k |-> Notation(i)]
RawTexts(k) == [i \in 1..k |-> RawText(i)]

\* out.replace("@@", "")
RECURSIVE StripJoin(_)
StripJoin(out) ==
    IF out = <<>> THEN <<>>
    ELSE (IF Head(out) = "@@" THEN <<>> ELSE <<Head(out)>>) \o StripJoin(Tail(out))

\* " ".join(texts)
RECURSIVE Join(_)
Join(texts) ==
    IF texts = <<>> THEN <<>>
    ELSE IF Len(texts) = 1 THEN texts[1]
    ELSE texts[1] \o <<" ">> \o Join(Tail(texts))

\* ------------------------------------------------------ request handlers
MinFrames == 10

FrameCounts == {0, 9, 10}
FpsValues == {16, 30}
Endpoints == {"segment", "translate"}

\* Variant: the threshold is one frame too low.
TooFewFrames_Nine(n) == n < MinFrames - 1

TooFewFrames(n) == n < MinFrames

\* frame_count / fps, kept as the exact quotient.
Quotient(n, d) == [num |-> n, den |-> d]

HTTPException(status, label, msg) ==
    [status |-> status, label |-> label, msg |-> msg, body |-> None]

Success(body) == [status |-> "200", label |-> "", msg |-> "", body |-> body]

\* `except Exception as e:` of the two endpoints: one handler around every
\* stage, whose detail is the endpoint's fixed prefix followed by str(e).
FailureLabel(ep) ==
    IF ep = "segment" THEN "Segmentation failed" ELSE "Translation failed"

\* Variant: the handler sends along what the completed stages produced.
ErrorResponse_Partial(ep, msg) ==
    [status |-> IF ep = "frames" THEN "raised" ELSE "500",
     label |-> IF ep = "frames" THEN "" ELSE FailureLabel(ep), msg |-> msg,
     body |-> [signs |-> tiers.SIGN, sentences |-> tiers.SENTENCE,
               full_text |-> Join(translations)]]

\* translate_frames has no handler: the exception reaches its caller.
ErrorResponse(ep, msg) ==
    IF ep = "frames"
      THEN [status |-> "raised", label |-> "", msg |-> msg, body |-> None]
      ELSE HTTPException("500", FailureLabel(ep), msg)

\* str(e) of an exception raised inside a collaborator: its text is the
\* collaborator's and says nothing about the stage of the handler.
ExternalError == "RuntimeError"

Raise(stage, msg) ==
    /\ resp' = ErrorResponse(req.ep, msg)
    /\ failedAt' = stage
    /\ ppc' = "done"

\* The checks at the top of segment_endpoint / translate_endpoint and of
\* translate_frames.
Receive(ep, n, fps) ==
    /\ ppc = "idle"
    /\ nreq < MaxRequests
    /\ nreq' = nreq + 1
    /\ req' = [ep |-> ep, nframes |-> n, fps |-> fps]
    /\ IF ep \in Endpoints
         THEN IF n = 0
                THEN /\ resp' = HTTPException("400", "No frames provided", "")
                     /\ ppc' = "done"
              ELSE IF TooFewFrames(n)
                THEN /\ resp' = HTTPException("400", "Too few frames", "")
                     /\ ppc' = "done"
              ELSE /\ resp' = resp
                   /\ ppc' = "encode"
         ELSE IF TooFewFrames(n)
                THEN /\ resp' = [status |-> "returned",
                                 label |-> "Too few frames for translation",
                                 msg |-> "",
                                 body |-> [translation |-> <<>>,
                                           frame_count |-> n]]
                     /\ ppc' = "done"
              ELSE /\ resp' = resp
                   /\ ppc' = "vit"
    /\ UNCHANGED <<calls, tiers, annotations, swlist, translations, feats,
                   failedAt, gvars, wvars, evars, cvars, xvars>>

Stay == UNCHANGED <<req, nreq, gvars, wvars, evars, cvars, xvars>>

\* frames_to_pose(frames, width, height, fps)
Encode ==
    /\ ppc = "encode"
    /\ calls' = Append(calls, "frames_to_pose")
    /\ ppc' = "segment"
    /\ UNCHANGED <<tiers, annotations, swlist, translations, resp, feats,
                   failedAt>>
    /\ Stay

EncodeFail ==
    /\ ppc = "encode"
    /\ calls' = Append(calls, "frames_to_pose")
    /\ Raise("encoding", ExternalError)
    /\ UNCHANGED <<tiers, annotations, swlist, translations, feats>>
    /\ Stay

SegmentResult(ts, n, fps) ==
    [signs |-> extract_segments(ts.SIGN, fps),
     sentences |-> extract_segments(ts.SENTENCE, fps),
     frame_count |-> n,
     duration |-> Quotient(n, fps)]

EmptyTranslateResponse(n, fps) ==
    [signs |-> <<>>, sentences |-> <<>>, full_text |-> <<>>,
     frame_count |-> n, duration |-> Quotient(n, fps)]

\* Variant: the short cut is taken only when both tiers are empty.
NoSigns_NoTiers(ts) == ts.SIGN = <<>> /\ ts.SENTENCE = <<>>

\* `if not sign_segments:`
NoSigns(ts) == ts.SIGN = <<>>

\* segment(pose, fps) in segment_endpoint; segment_pose and the empty-SIGN
\* short cut in translate_endpoint.
Segment(ts) ==
    /\ ppc = "segment"
    /\ calls' = Append(calls, "segment_pose")
    /\ tiers' = ts
    /\ IF req.ep = "segment"
         THEN /\ resp' = Success(SegmentResult(ts, req.nframes, req.fps))
              /\ ppc' = "done"
         ELSE IF NoSigns(ts)
                THEN /\ resp' = Success(EmptyTranslateResponse(req.nframes,
                                                               req.fps))
                     /\ ppc' = "done"
                ELSE /\ resp' = resp
                     /\ ppc' = "normalize"
    /\ UNCHANGED <<annotations, swlist, translations, feats, failedAt>>
    /\ Stay

SegmentFail ==
    /\ ppc = "segment"
    /\ calls' = Append(calls, "segment_pose")
    /\ Raise("segmentation", ExternalError)
    /\ UNCHANGED <<tiers, annotations, swlist, translations, feats>>
    /\ Stay

\* seg['start'] / seg['end'] need a record that can be subscripted by key.
Subscriptable(seg) == seg.shape = "dict" /\ seg.keys

\* Variant: the seconds are truncated before they are scaled.
ToMs_WholeSeconds(v, fps) == 1000 * Trunc(FloatDiv(v, 2 * fps))

\* int(seg['start'] / request.fps * 1000), v being the number in half frames.
ToMs(v, fps) == Trunc(FloatMulInt(FloatDiv(v, 2 * fps), 1000))

\* transcription_service.py: int(start_ms / 1000 * fps)
ms_to_frame(ms, fps) == Trunc(FloatMulInt(FloatDiv(ms, 1000), fps))

sign_annotations(sign_segments, fps) ==
    [i \in 1..Len(sign_segments) |->
        <<ToMs(sign_segments[i].start, fps), ToMs(sign_segments[i].end, fps), "">>]

\* main.py:238-262: download_model, reduce_holistic and the conversion of
\* the SIGN records to millisecond annotations.
Normalize ==
    /\ ppc = "normalize"
    /\ calls' = calls \o <<"download_model", "reduce_holistic">>
    /\ IF \A i \in 1..Len(tiers.SIGN) : Subscriptable(tiers.SIGN[i])
         THEN /\ annotations' = sign_annotations(tiers.SIGN, req.fps)
              /\ ppc' = "transcribe"
              /\ UNCHANGED <<resp, failedAt>>
         ELSE /\ Raise("normalization", "TypeError")
              /\ annotations' = annotations
    /\ UNCHANGED <<tiers, swlist, translations, feats>>
    /\ Stay

NormalizeFail ==
    /\ ppc = "normalize"
    /\ calls' = Append(calls, "download_model")
    /\ Raise("normalization", ExternalError)
    /\ UNCHANGED <<tiers, annotations, swlist, translations, feats>>
    /\ Stay

\* main.py:264-269: preprocessing_signs and sw_translate; the collaborator
\* decides how many notation strings come back.
Transcribe(sw) ==
    /\ ppc = "transcribe"
    /\ calls' = calls \o <<"preprocessing_signs", "sw_translate">>
    /\ swlist' = sw
    /\ ppc' = "translate"
    /\ UNCHANGED <<tiers, annotations, translations, resp, feats, failedAt>>
    /\ Stay

TranscribeFail ==
    /\ ppc = "transcribe"
    /\ calls' = calls \o <<"preprocessing_signs", "sw_translate">>
    /\ Raise("transcription", ExternalError)
    /\ UNCHANGED <<tiers, annotations, swlist, translations, feats>>
    /\ Stay

\* A getter called from the single request task: a miss constructs the
\* model on the device get_device() names and stores it.
GetterCall(k) ==
    IF GetterMustBuild(k)
      THEN /\ built' = [built EXCEPT ![k] = @ + 1]
           /\ cache' = [cache EXCEPT ![k] =
                           StoreResult(k, @, Handle(k, built[k] + 1, get_device))]
      ELSE UNCHANGED <<built, cache>>

\* translate_signs: the cleaned outputs of the batch translation.
translate_signs(outputs) == [i \in 1..Len(outputs) |-> StripJoin(outputs[i])]

\* Variant: the translation is called for an empty list as well.
TranslationNeeded_Always(sw) == TRUE

\* `if signwriting_list:`
TranslationNeeded(sw) == sw # <<>>

\* main.py:271-277.
Translate(outputs) ==
    /\ ppc = "translate"
    /\ IF TranslationNeeded(swlist)
         THEN /\ calls' = calls \o <<"translate_signs", "get_translator", "translate">>
              /\ GetterCall("translator")
              /\ translations' = translate_signs(outputs)
         ELSE /\ outputs = <<>>
              /\ calls' = calls
              /\ translations' = <<>>
              /\ UNCHANGED <<built, cache>>
    /\ ppc' = "assemble"
    /\ UNCHANGED <<tiers, annotations, swlist, resp, feats, failedAt, req, nreq,
                   cudaAvailable, failed, tvars, wvars, evars, cvars, xvars>>

\* load_sockeye_translator raises inside get_translator: nothing is cached.
TranslateModelFail ==
    /\ ppc = "translate"
    /\ TranslationNeeded(swlist)
    /\ GetterMustBuild("translator")
    /\ calls' = calls \o <<"translate_signs", "get_translator">>
    /\ Raise("translation", "ModelUnavailable")
    /\ UNCHANGED <<tiers, annotations, swlist, translations, feats>>
    /\ Stay

\* The batch translation raises.
TranslateFail ==
    /\ ppc = "translate"
    /\ TranslationNeeded(swlist)
    /\ calls' = calls \o <<"translate_signs", "get_translator", "translate">>
    /\ GetterCall("translator")
    /\ Raise("translation", ExternalError)
    /\ UNCHANGED <<tiers, annotations, swlist, translations, feats, req, nreq,
                   cudaAvailable, failed, tvars, wvars, evars, cvars, xvars>>

\* Variant: the entry after the i-th is taken.
EntryOrEmpty_Shifted(list, i, empty) ==
    IF i < Len(list) THEN list[i + 1] ELSE empty

\* signwriting_list[i] if i < len(signwriting_list) else "" (and the same
\* for translations): a missing entry becomes the empty string.
EntryOrEmpty(list, i, empty) == IF i <= Len(list) THEN list[i] ELSE empty

TranslatedSign(seg, sw, text, fps) ==
    [start_frame |-> int(seg.start), end_frame |-> int(seg.end),
     start_time |-> Round3(int(seg.start), fps),
     end_time |-> Round3(int(seg.end), fps),
     signwriting |-> sw, text |-> text]

translated_signs(sign_segments, sws, texts, fps) ==
    [i \in 1..Len(sign_segments) |->
        TranslatedSign(sign_segments[i], EntryOrEmpty(sws, i, ""),
                       EntryOrEmpty(texts, i, <<>>), fps)]

SegmentBoundary(seg, fps) == Boundary(int(seg.start), int(seg.end), fps)

\* The int fields of TranslatedSign / SegmentBoundary refuse a number with a
\* fractional part.
ValidInts(seg) == IsIntegral(seg.start) /\ IsIntegral(seg.end)

\* The exception the response building raises, "" when it raises none:
\* the signs are built first, then the sentences in order.
RECURSIVE SentenceError(_)
SentenceError(segs) ==
    IF segs = <<>> THEN ""
    ELSE IF ~Subscriptable(Head(segs)) THEN "TypeError"
    ELSE IF ~ValidInts(Head(segs)) THEN "ValidationError"
    ELSE SentenceError(Tail(segs))

AssembleError(ts) ==
    IF \E i \in 1..Len(ts.SIGN) : ~ValidInts(ts.SIGN[i]) THEN "ValidationError"
    ELSE SentenceError(ts.SENTENCE)

TranslateResponse(ts, sws, texts, n, fps) ==
    [signs |-> translated_signs(ts.SIGN, sws, texts, fps),
     sentences |-> [i \in 1..Len(ts.SENTENCE) |->
                       SegmentBoundary(ts.SENTENCE[i], fps)],
     full_text |-> Join(texts),
     frame_count |-> n,
     duration |-> Quotient(n, fps)]

\* main.py:279-315.
Assemble ==
    /\ ppc = "assemble"
    /\ IF AssembleError(tiers) = ""
         THEN /\ resp' = Success(TranslateResponse(tiers, swlist, translations,
                                                   req.nframes, req.fps))
              /\ ppc' = "done"
              /\ failedAt' = failedAt
         ELSE Raise("assembly", AssembleError(tiers))
    /\ UNCHANGED <<calls, tiers, annotations, swlist, translations, feats>>
    /\ Stay

\* ---- translate_frames (spamo_service.py:297-341)
FramesUnchanged ==
    UNCHANGED <<tiers, annotations, swlist, translations, req, nreq,
                cudaAvailable, failed, tvars, wvars, evars, cvars, xvars>>

FramesVit ==
    /\ ppc = "vit"
    /\ calls' = calls \o <<"get_vit_extractor", "vit.get_feats">>
    /\ GetterCall("vit")
    /\ feats' = [feats EXCEPT !.spatial = req.nframes]
    /\ ppc' = "mae"
    /\ UNCHANGED <<resp, failedAt>>
    /\ FramesUnchanged

FramesMae ==
    /\ ppc = "mae"
    /\ calls' = calls \o <<"get_mae_extractor", "mae.get_feats">>
    /\ GetterCall("mae")
    /\ feats' = [feats EXCEPT !.motion = Len(get_feats_chunks(Clip(req.nframes)).chunks)]
    /\ ppc' = "spamo"
    /\ UNCHANGED <<resp, failedAt>>
    /\ FramesUnchanged

FramesSpamo(text) ==
    /\ ppc = "spamo"
    /\ calls' = calls \o <<"get_spamo_model", "spamo.translate">>
    /\ GetterCall("spamo")
    /\ resp' = [status |-> "returned", label |-> "", msg |-> "",
                body |-> [translation |-> text,
                          spatial_features_shape |-> feats.spatial,
                          motion_features_shape |-> feats.motion,
                          frame_count |-> req.nframes]]
    /\ ppc' = "done"
    /\ UNCHANGED <<feats, failedAt>>
    /\ FramesUnchanged

\* A constructor or an inference call of translate_frames raises.
FramesFail ==
    /\ ppc \in {"vit", "mae", "spamo"}
    /\ calls' = Append(calls, IF ppc = "vit" THEN "get_vit_extractor"
                              ELSE IF ppc = "mae" THEN "get_mae_extractor"
                              ELSE "get_spamo_model")
    /\ Raise(ppc, "ModelUnavailable")
    /\ UNCHANGED <<tiers, annotations, swlist, translations, feats>>
    /\ Stay

\* The response has been delivered; the handler's locals are gone.
Finish ==
    /\ ppc = "done"
    /\ req' = NoRequest
    /\ ppc' = "idle"
    /\ calls' = <<>>
    /\ tiers' = NoTiers
    /\ annotations' = <<>>
    /\ swlist' = <<>>
    /\ translations' = <<>>
    /\ resp' = None
    /\ feats' = NoFeats
    /\ failedAt' = ""
    /\ UNCHANGED <<nreq, gvars, wvars, evars, cvars, xvars>>

PInit ==
    /\ CacheEmpty /\ cudaAvailable = FALSE
    /\ ThreadsInit /\ PipelineIdle /\ nreq = 0 /\ WindowIdle /\ EncodeIdle
    /\ ConvertIdle /\ ExtractIdle

PNext ==
    \/ \E ep \in Endpoints \cup {"frames"}, n \in FrameCounts, fps \in FpsValues :
          Receive(ep, n, fps)
    \/ Encode
    \/ EncodeFail
    \/ \E ts \in TierChoices : Segment(ts)
    \/ SegmentFail
    \/ Normalize
    \/ NormalizeFail
    \/ \E k \in 0..MaxOut : Transcribe(Notations(k))
    \/ TranscribeFail
    \/ \E k \in 0..MaxOut : Translate(RawTexts(k))
    \/ TranslateModelFail
    \/ TranslateFail
    \/ Assemble
    \/ FramesVit
    \/ FramesMae
    \/ \E text \in {<<"hallo">>, <<>>} : FramesSpamo(text)
    \/ FramesFail
    \/ Finish

SpecPipeline == PInit /\ [][PNext]_vars

\* ---- get_feats called on its own with a clip of any length up to MaxF
WInit ==
    /\ CacheEmpty /\ cudaAvailable = FALSE
    /\ ThreadsInit /\ PipelineIdle /\ nreq = 0 /\ EncodeIdle
    /\ ConvertIdle /\ ExtractIdle
    /\ wframes \in {Clip(F) : F \in 0..MaxF}
    /\ wchunks = NotRun

GetFeats ==
    /\ wchunks = NotRun
    /\ wchunks' = get_feats_chunks(wframes)
    /\ UNCHANGED <<wframes, gvars, pvars, evars, cvars, xvars>>

WNext == GetFeats

SpecWindow == WInit /\ [][WNext]_vars

\* ---- the two conversions applied to a frame index, one after the other
MaxFrameIndex == 60
ConvertFps == {16, 24, 25, 30, 50, 60}

CInit ==
    /\ CacheEmpty /\ cudaAvailable = FALSE
    /\ ThreadsInit /\ PipelineIdle /\ nreq = 0 /\ WindowIdle /\ EncodeIdle
    /\ ExtractIdle
    /\ cframe \in 0..MaxFrameIndex
    /\ cfps \in ConvertFps
    /\ cms = -1
    /\ cback = -1

FrameToMs ==
    /\ cms = -1
    /\ cms' = ToMs(2 * cframe, cfps)
    /\ UNCHANGED <<cframe, cfps, cback, gvars, pvars, wvars, evars, xvars>>

MsToFrame ==
    /\ cms # -1 /\ cback = -1
    /\ cback' = ms_to_frame(cms, cfps)
    /\ UNCHANGED <<cframe, cfps, cms, gvars, pvars, wvars, evars, xvars>>

CNext == FrameToMs \/ MsToFrame

SpecConvert == CInit /\ [][CNext]_vars

\* ---- _extract_segments called on its own with the records of one tier
MaxRecords == 3

RecordPool == {Dict(0, 30), Pair(41, 81), Attr(10, 20), Malformed,
               NamedPair(40, 80, 2, 4), DictNoKeys(TRUE, 6, 8),
               DictNoKeys(FALSE, 0, 0), Single(50)}

XInit ==
    /\ CacheEmpty /\ cudaAvailable = FALSE
    /\ ThreadsInit /\ PipelineIdle /\ nreq = 0 /\ WindowIdle /\ EncodeIdle
    /\ ConvertIdle
    /\ xsegments \in SeqsUpTo(RecordPool, MaxRecords)
    /\ xfps \in FpsValues
    /\ xresult = NotExtracted

ExtractSegments ==
    /\ xresult = NotExtracted
    /\ xresult' = [raised |-> "",
                   boundaries |-> extract_segments(xsegments, xfps)]
    /\ UNCHANGED <<xsegments, xfps, gvars, pvars, wvars, evars, cvars>>

XNext == ExtractSegments

SpecExtract == XInit /\ [][XNext]_vars

\* ------------------------------------------------------ landmark encoder
\* A number is m * 2^e, kept with m odd (or zero), so that equal numbers are
\* equal records; nan marks the NaN a float array holds for None.
POSE_POINTS == 33
FACE_POINTS == 468
HAND_POINTS == 21
TOTAL_POINTS == POSE_POINTS + FACE_POINTS + HAND_POINTS * 2

Zero == [m |-> 0, e |-> 0, nan |-> FALSE]
NaN == [m |-> 0, e |-> 0, nan |-> TRUE]

RECURSIVE Norm(_, _)
Norm(m, e) ==
    IF m = 0 THEN Zero
    ELSE IF m % 2 = 0 THEN Norm(m \div 2, e + 1)
    ELSE [m |-> m, e |-> e, nan |-> FALSE]

RECURSIVE OddPart(_)
OddPart(w) == IF w % 2 = 0 THEN OddPart(w \div 2) ELSE w

RECURSIVE TwoExp(_)
TwoExp(w) == IF w % 2 = 0 THEN 1 + TwoExp(w \div 2) ELSE 0

\* v * w for a double v and a positive int w; exact, as the product of the
\* numbers used here fits a double.
Scale(v, w) == Norm(v.m * OddPart(w), v.e + TwoExp(w))

\* The store into an array of dtype float32: the double is rounded to 24
\* significant bits, to nearest, ties to even; None is stored as NaN.
Float32(v) ==
    IF v.nan \/ v.m < 2^24 THEN v
    ELSE LET s == BitLen(v.m) - 24
             q == v.m \div 2^s
             r == v.m % 2^s
             up == 2 * r > 2^s \/ (2 * r = 2^s /\ q % 2 = 1)
         IN  Norm(IF up THEN q + 1 ELSE q, v.e + s)

One == Norm(1, 0)
Half == Norm(1, -1)
Quarter == Norm(1, -2)
HalfPlus == Norm(2^25 + 1, -26)

\* Variant: a landmark without visibility gets 0.0.
Visibility_DefaultZero(lm) ==
    IF lm.vis = "missing" THEN Zero
    ELSE IF lm.vis = "null" THEN NaN
    ELSE lm.visibility

\* lm.get('visibility', 1.0)
Visibility(lm) ==
    IF lm.vis = "missing" THEN One
    ELSE IF lm.vis = "null" THEN NaN
    ELSE lm.visibility

\* Variant: y is scaled by the width.
Point_AllWidth(lm, width, height) ==
    [xyz |-> <<Float32(Scale(lm.x, width)), Float32(Scale(lm.y, width)),
               Float32(Scale(lm.z, width))>>,
     confidence |-> Float32(Visibility(lm))]

\* The four assignments made for one landmark.
Point(lm, width, height) ==
    [xyz |-> <<Float32(Scale(lm.x, width)), Float32(Scale(lm.y, height)),
               Float32(Scale(lm.z, width))>>,
     confidence |-> Float32(Visibility(lm))]

ZeroPoint == [xyz |-> <<Zero, Zero, Zero>>, confidence |-> Zero]

\* frame.get(key) or []
GroupList(group) == IF group.present THEN group.landmarks ELSE <<>>

\* Variant: the list is not cut at the capacity.
Slice_NoCap(landmarks, capacity) == landmarks

\* landmarks[:capacity]
Slice(landmarks, capacity) ==
    SubSeq(landmarks, 1, IF Len(landmarks) < capacity THEN Len(landmarks)
                         ELSE capacity)

\* for i, lm in enumerate(landmarks[:capacity]): if lm: row[point_offset + i] = ...
WriteGroup(row, group, point_offset, capacity, width, height) ==
    LET lms == Slice(GroupList(group), capacity)
    IN  [p \in DOMAIN row |->
            IF /\ p - point_offset \in 0..(Len(lms) - 1)
               /\ lms[p - point_offset + 1].truthy
              THEN Point(lms[p - point_offset + 1], width, height)
              ELSE row[p]]

EncodeFrame(frame, width, height) ==
    LET r0 == [p \in 0..(TOTAL_POINTS - 1) |-> ZeroPoint]
        r1 == WriteGroup(r0, frame.poseLandmarks, 0, POSE_POINTS, width, height)
        r2 == WriteGroup(r1, frame.faceLandmarks, POSE_POINTS, FACE_POINTS,
                         width, height)
        r3 == WriteGroup(r2, frame.leftHandLandmarks, POSE_POINTS + FACE_POINTS,
                         HAND_POINTS, width, height)
    IN  WriteGroup(r3, frame.rightHandLandmarks,
                   POSE_POINTS + FACE_POINTS + HAND_POINTS, HAND_POINTS,
                   width, height)

landmarks_to_numpy(frames, width, height) ==
    LET rows == [f \in 1..Len(frames) |-> EncodeFrame(frames[f], width, height)]
    IN  [data |-> [f \in 1..Len(frames) |->
                      [p \in 0..(TOTAL_POINTS - 1) |-> rows[f][p].xyz]],
         confidence |-> [f \in 1..Len(frames) |->
                      [p \in 0..(TOTAL_POINTS - 1) |-> rows[f][p].confidence]]]

\* ---- the frames landmarks_to_numpy is tried on
Num(x, y, z, v) ==
    [truthy |-> TRUE, x |-> x, y |-> y, z |-> z, vis |-> "num", visibility |-> v]
NoVis(x, y, z) ==
    [truthy |-> TRUE, x |-> x, y |-> y, z |-> z, vis |-> "missing",
     visibility |-> Zero]
NullVis(x, y, z) ==
    [truthy |-> TRUE, x |-> x, y |-> y, z |-> z, vis |-> "null",
     visibility |-> Zero]
EmptyLandmark ==
    [truthy |-> FALSE, x |-> Zero, y |-> Zero, z |-> Zero, vis |-> "missing",
     visibility |-> Zero]

LandmarkPool == << Num(Half, Quarter, Zero, One),
                   Num(HalfPlus, HalfPlus, Half, HalfPlus),
                   EmptyLandmark,
                   NoVis(One, Half, Quarter),
                   NullVis(Quarter, One, One),
                   Num(Quarter, Half, One, Zero) >>

\* A list of n landmarks taken from the pool in turn, starting at seed.
Landmarks(n, seed) ==
    [i \in 1..n |-> LandmarkPool[((i - 1 + seed) % Len(LandmarkPool)) + 1]]

Absent == [present |-> FALSE, landmarks |-> <<>>]
Present(lms) == [present |-> TRUE, landmarks |-> lms]

\* How many landmarks a group of the given capacity is given; -1: absent.
LengthChoices(capacity) == {-1, 0, 2, capacity, capacity + MaxExtra}

Group(n, seed) == IF n < 0 THEN Absent ELSE Present(Landmarks(n, seed))

Frame(np, nf, nl, nr, seed) ==
    [poseLandmarks |-> Group(np, seed),
     faceLandmarks |-> Group(nf, seed + 1),
     leftHandLandmarks |-> Group(nl, seed + 2),
     rightHandLandmarks |-> Group(nr, seed + 3)]

FrameChoices ==
    {Frame(np, nf, nl, nr, seed) :
        np \in LengthChoices(POSE_POINTS), nf \in LengthChoices(FACE_POINTS),
        nl \in LengthChoices(HAND_POINTS), nr \in LengthChoices(HAND_POINTS),
        seed \in 0..MaxSeed}

NoLandmarks == Frame(-1, -1, -1, -1, 0)

ClipChoices ==
    {<<f>> : f \in FrameChoices}
        \cup {<<NoLandmarks, Frame(2, 2, 2, 2, seed)>> : seed \in 0..MaxSeed}
        \cup {<<Frame(2, 2, 2, 2, seed), NoLandmarks, Frame(0, 2, -1, 2, seed)>> :
                 seed \in 0..MaxSeed}

Dimensions == {[width |-> 640, height |-> 480]}

EInit ==
    /\ CacheEmpty /\ cudaAvailable = FALSE
    /\ ThreadsInit /\ PipelineIdle /\ nreq = 0 /\ WindowIdle
    /\ ConvertIdle /\ ExtractIdle
    /\ eframes \in ClipChoices
    /\ edims \in Dimensions
    /\ etensor = NotEncoded

EncodeLandmarks ==
    /\ etensor = NotEncoded
    /\ etensor' = landmarks_to_numpy(eframes, edims.width, edims.height)
    /\ UNCHANGED <<eframes, edims, gvars, pvars, wvars, cvars, xvars>>

ENext == EncodeLandmarks

SpecEncode == EInit /\ [][ENext]_vars

\* ======================================================================
\* Claims
\* ======================================================================
Range(f) == {f[i] : i \in DOMAIN f}

\* C1 (as stated; violated): whatever the interleaving of concurrent getter
\* calls, no model kind is ever constructed more than once.
C1_ConstructedOnce == \A k \in Kinds : built[k] <= 1

\* C2: a request with fewer than 10 frames (0 included) ends at once with a
\* too-short rejection, and no collaborator, getter or constructor has been
\* invoked for it; for both endpoints and for translate_frames.
C2_ShortInputRejected ==
    (ppc # "idle" /\ req.nframes < 10) =>
        /\ ppc = "done"
        /\ calls = <<>>
        /\ failedAt = ""
        /\ resp.body = IF req.ep = "frames"
                         THEN [translation |-> <<>>, frame_count |-> req.nframes]
                         ELSE None
        /\ <<resp.status, resp.label>> =
              IF req.ep = "frames"
                THEN <<"returned", "Too few frames for translation">>
              ELSE IF req.nframes = 0 THEN <<"400", "No frames provided">>
              ELSE <<"400", "Too few frames">>

C2_Witness ==
    /\ ppc = "done" /\ req.ep = "translate" /\ req.nframes = 9
    /\ resp.status = "400" /\ resp.label = "Too few frames"

\* C3: in translate_endpoint, once segment_pose has returned no SIGN segment
\* the run is over: the response is a success with no signs, no sentences,
\* empty text, frame_count = number of input frames and duration =
\* frame_count / fps, and nothing after segment_pose has been invoked.
SegmentationReturned ==
    /\ Len(calls) >= 2 /\ calls[2] = "segment_pose"
    /\ failedAt # "segmentation"

C3_EmptySigns ==
    (req.ep = "translate" /\ SegmentationReturned /\ tiers.SIGN = <<>>) =>
        /\ ppc = "done"
        /\ calls = <<"frames_to_pose", "segment_pose">>
        /\ resp = [status |-> "200", label |-> "", msg |-> "",
                   body |-> [signs |-> <<>>, sentences |-> <<>>,
                             full_text |-> <<>>,
                             frame_count |-> req.nframes,
                             duration |-> [num |-> req.nframes,
                                           den |-> req.fps]]]

C3_Witness ==
    /\ req.ep = "translate" /\ ppc = "done" /\ SegmentationReturned
    /\ tiers.SIGN = <<>> /\ tiers.SENTENCE # <<>>
    /\ req.nframes = 10 /\ resp.status = "200"

\* C4 (as stated; violated): a successful translate response is only returned
\* when transcription and translation each gave exactly one string per SIGN
\* segment.
C4_MismatchDetected ==
    (req.ep = "translate" /\ ppc = "done" /\ resp.status = "200"
        /\ tiers.SIGN # <<>>) =>
        /\ Len(swlist) = Len(tiers.SIGN)
        /\ Len(translations) = Len(tiers.SIGN)

\* C5: a run in which a stage raised returns an error only: no boundaries,
\* no sentences and no text of the stages that had completed.
C5_NoPartialResult ==
    (ppc = "done" /\ failedAt # "") =>
        /\ resp.status \in {"500", "raised"}
        /\ resp.body = None
        /\ DOMAIN resp = {"status", "label", "msg", "body"}

C5_Witness ==
    /\ ppc = "done" /\ failedAt = "assembly" /\ resp.status = "500"
    /\ Len(swlist) = 2 /\ Len(translations) = 2

\* C6 (as stated; violated): the error of an aborted endpoint run names the
\* stage that failed.
StageNamedBy(r) ==
    IF r.label = "Segmentation failed" THEN "segmentation"
    ELSE IF r.label = "Translation failed" THEN "translation"
    ELSE r.label

C6_StageNamed ==
    (ppc = "done" /\ failedAt # "" /\ req.ep \in Endpoints) =>
        StageNamedBy(resp) = failedAt

\* C7 (amended): for 1 <= F < 16 get_feats builds exactly one chunk of 16
\* frames, the F input frames in order followed by 16-F copies of the last
\* one; for F = 0 it raises IndexError and builds nothing.
C7_PadsToOneWindow ==
    (wchunks # NotRun /\ Len(wframes) < 16) =>
        IF Len(wframes) = 0
          THEN wchunks = IndexError
          ELSE /\ wchunks.raised = ""
               /\ wchunks.chunks = << [j \in 1..16 |->
                                         IF j <= Len(wframes) THEN wframes[j]
                                         ELSE wframes[Len(wframes)]] >>

C7_Witness ==
    wchunks # NotRun /\ Len(wframes) = 10 /\ Len(wchunks.chunks) = 1

\* C7 (as stated; violated): for every F < 16, F = 0 included, exactly one
\* chunk of 16 frames is built.
C7_Original ==
    (wchunks # NotRun /\ Len(wframes) < 16) =>
        /\ wchunks.raised = ""
        /\ Len(wchunks.chunks) = 1
        /\ Len(wchunks.chunks[1]) = 16
        /\ \A j \in 1..16 :
              wchunks.chunks[1][j] = wframes[IF j <= Len(wframes) THEN j
                                             ELSE Len(wframes)]

\* C8: for F >= 16 get_feats builds floor((F-16)/8)+1 chunks; chunk k (from
\* 0) is the frames 8k .. 8k+15, all inside the clip, and two consecutive
\* chunks have exactly 8 frames in common.
C8_Windows ==
    (wchunks # NotRun /\ Len(wframes) >= 16) =>
        LET F == Len(wframes)
            cs == wchunks.chunks
        IN  /\ wchunks.raised = ""
            /\ Len(cs) = ((F - 16) \div 8) + 1
            /\ \A k \in 0..(Len(cs) - 1) :
                  /\ cs[k + 1] = [j \in 1..16 |-> wframes[8 * k + j]]
                  /\ Range(cs[k + 1]) \subseteq Range(wframes)
            /\ \A k \in 1..(Len(cs) - 1) :
                  /\ SubSeq(cs[k], 9, 16) = SubSeq(cs[k + 1], 1, 8)
                  /\ Cardinality(Range(cs[k]) \cap Range(cs[k + 1])) = 8

C8_Witness ==
    wchunks # NotRun /\ Len(wframes) = 39 /\ Len(wchunks.chunks) = 3

\* C9 (amended): for every frame, every group given at most its capacity of
\* landmarks (33/468/21/21) and every populated landmark i of it, the slot
\* offset(group)+i (offsets 0, 33, 501, 522) holds x*width, y*height, z*width
\* and the visibility, each rounded to single precision: the arrays are
\* float32.  A landmark without visibility gets 1.0, a null visibility NaN.
IsFloat32Of(s, v) ==
    /\ ~s.nan /\ ~v.nan
    /\ IF v.m < 2^24 THEN s = v
       ELSE LET ulp == 2^(BitLen(v.m) - 24)
                S == s.m * 2^(s.e - v.e)
                d == IF S >= v.m THEN S - v.m ELSE v.m - S
            IN  /\ s.e >= v.e
                /\ S % ulp = 0
                /\ 2 * d <= ulp
                /\ (2 * d = ulp) => ((S \div ulp) % 2 = 0)

\* v * w, exactly; 640 is 5 * 2^7 and 480 is 15 * 2^5.
Product(v, w) ==
    IF w = 640 THEN Norm(v.m * 5, v.e + 7)
    ELSE IF w = 480 THEN Norm(v.m * 15, v.e + 5)
    ELSE Norm(v.m * w, v.e)

GroupsOf(frame) ==
    << [group |-> frame.poseLandmarks, offset |-> 0, capacity |-> 33],
       [group |-> frame.faceLandmarks, offset |-> 33, capacity |-> 468],
       [group |-> frame.leftHandLandmarks, offset |-> 501, capacity |-> 21],
       [group |-> frame.rightHandLandmarks, offset |-> 522, capacity |-> 21] >>

\* The populated landmarks of frame f the claim is about: <<slot, landmark>>.
Populated(f) ==
    UNION { {<<GroupsOf(eframes[f])[g].offset + i - 1,
               GroupsOf(eframes[f])[g].group.landmarks[i]>> :
                i \in {j \in 1..Len(GroupsOf(eframes[f])[g].group.landmarks) :
                          GroupsOf(eframes[f])[g].group.landmarks[j].truthy}} :
            g \in {h \in 1..4 :
                      /\ GroupsOf(eframes[f])[h].group.present
                      /\ Len(GroupsOf(eframes[f])[h].group.landmarks)
                            <= GroupsOf(eframes[f])[h].capacity} }

C9_SlotsFloat32 ==
    (etensor # NotEncoded) =>
        \A f \in 1..Len(eframes) : \A sl \in Populated(f) :
            LET p == sl[1]
                lm == sl[2]
                xyz == etensor.data[f][p]
                conf == etensor.confidence[f][p]
            IN  /\ IsFloat32Of(xyz[1], Product(lm.x, edims.width))
                /\ IsFloat32Of(xyz[2], Product(lm.y, edims.height))
                /\ IsFloat32Of(xyz[3], Product(lm.z, edims.width))
                /\ lm.vis = "num" => IsFloat32Of(conf, lm.visibility)
                /\ lm.vis = "missing" => conf = One
                /\ lm.vis = "null" => conf = NaN

C9_Witness ==
    /\ etensor # NotEncoded
    /\ eframes[1].faceLandmarks.present
    /\ Len(eframes[1].faceLandmarks.landmarks) = 468
    /\ etensor.confidence[1][500] # Zero
    /\ eframes[1].rightHandLandmarks.present
    /\ Len(eframes[1].rightHandLandmarks.landmarks) = 21
    /\ etensor.data[1][542] # <<Zero, Zero, Zero>>

\* C9 (as stated; violated): the slot holds exactly x*width, y*height,
\* z*width and exactly the visibility the landmark carries.
C9_Original ==
    (etensor # NotEncoded) =>
        \A f \in 1..Len(eframes) : \A sl \in Populated(f) :
            LET p == sl[1]
                lm == sl[2]
            IN  /\ etensor.data[f][p] = <<Product(lm.x, edims.width),
                                          Product(lm.y, edims.height),
                                          Product(lm.z, edims.width)>>
                /\ lm.vis = "num" => etensor.confidence[f][p] = lm.visibility
                /\ lm.vis = "missing" => etensor.confidence[f][p] = One

\* C10: every boundary of a successful response, SIGN or SENTENCE, from
\* either endpoint, has start_time / end_time equal to start_frame / fps and
\* end_frame / fps rounded to the nearest thousandth (ties to even); SIGN
\* segments (0,15),(20,40) at 30 fps give (0.0,0.5),(0.667,1.333); and the
\* boundaries of the translate path are those _extract_segments computes.
Rounded3(t, frame, fps) ==
    /\ 2000 * frame - fps <= 2 * t * fps
    /\ 2 * t * fps <= 2000 * frame + fps
    /\ (2 * t * fps - 2000 * frame \in {fps, -fps}) => t % 2 = 0

Frames4(b) == [start_frame |-> b.start_frame, end_frame |-> b.end_frame,
               start_time |-> b.start_time, end_time |-> b.end_time]

Times(bs) == [i \in 1..Len(bs) |-> <<bs[i].start_time, bs[i].end_time>>]

C10_Times ==
    (ppc = "done" /\ resp.status = "200") =>
        /\ \A b \in Range(resp.body.signs) \cup Range(resp.body.sentences) :
              /\ Rounded3(b.start_time, b.start_frame, req.fps)
              /\ Rounded3(b.end_time, b.end_frame, req.fps)
        /\ (req.fps = 30 /\ tiers.SIGN = <<Dict(0, 30), Dict(40, 80)>>) =>
              Times(resp.body.signs) = <<<<0, 500>>, <<667, 1333>>>>
        /\ req.ep = "translate" =>
              /\ [i \in 1..Len(resp.body.signs) |-> Frames4(resp.body.signs[i])]
                    = extract_segments(tiers.SIGN, req.fps)
              /\ \A i \in 1..Len(resp.body.sentences) :
                    <<resp.body.sentences[i]>> =
                        extract_segments(<<tiers.SENTENCE[i]>>, req.fps)

C10_Witness ==
    /\ ppc = "done" /\ resp.status = "200" /\ req.ep = "translate"
    /\ req.fps = 30 /\ tiers.SIGN = <<Dict(0, 30), Dict(40, 80)>>
    /\ Len(resp.body.sentences) = 1

C12_StartBeforeEnd ==
    (ppc = "done" /\ resp.status = "200") =>
        \A b \in Range(resp.body.signs) \cup Range(resp.body.sentences) :
            b.start_frame < b.end_frame

\* C13: a successful translate response for n >= 1 SIGN segments has exactly
\* n signs, in tier order: sign i has the frames of segment i, the i-th
\* notation string transcription returned and the i-th text translation
\* returned, wherever an i-th string came back; nothing is reordered or
\* shifted between the three sequences.
C13_SignsAligned ==
    (req.ep = "translate" /\ ppc = "done" /\ resp.status = "200"
        /\ tiers.SIGN # <<>>) =>
        /\ Len(resp.body.signs) = Len(tiers.SIGN)
        /\ \A i \in 1..Len(tiers.SIGN) :
              /\ 2 * resp.body.signs[i].start_frame = tiers.SIGN[i].start
              /\ 2 * resp.body.signs[i].end_frame = tiers.SIGN[i].end
              /\ i <= Len(swlist) => resp.body.signs[i].signwriting = swlist[i]
              /\ i <= Len(translations) =>
                    resp.body.signs[i].text = translations[i]

C13_Witness ==
    /\ req.ep = "translate" /\ ppc = "done" /\ resp.status = "200"
    /\ tiers.SIGN = <<Dict(40, 80), Dict(0, 30)>>
    /\ Len(swlist) = 2 /\ Len(translations) = 2
    /\ resp.body.signs[1].start_frame = 20
    /\ resp.body.signs[2].signwriting = "M2"
    /\ resp.body.signs[2].text = <<"wor", "ld">>

\* C14: _extract_segments takes the frames of a record from its keys
\* start / end when it is a mapping holding both, else from its first two
\* positions when it is a tuple or list of at least two items, else from its
\* attributes start / end when it has both, and else skips it.  The result
\* holds one boundary per resolvable record, in input order; a skipped
\* record raises nothing and changes no other record's boundary.
ByKeys(seg) == seg.shape = "dict" /\ seg.keys
ByPosition(seg) == ~ByKeys(seg) /\ seg.shape = "seq" /\ seg.len >= 2
ByAttributes(seg) == ~ByKeys(seg) /\ ~ByPosition(seg) /\ seg.attrs

ResolvableIndices ==
    {i \in 1..Len(xsegments) :
        ByKeys(xsegments[i]) \/ ByPosition(xsegments[i])
            \/ ByAttributes(xsegments[i])}

C14_ResolutionOrder ==
    (xresult # NotExtracted) =>
        LET bs == xresult.boundaries
            pos(i) == Cardinality({h \in ResolvableIndices : h <= i})
        IN  /\ xresult.raised = ""
            /\ Len(bs) = Cardinality(ResolvableIndices)
            /\ \A i \in ResolvableIndices :
                  LET seg == xsegments[i]
                      b == bs[pos(i)]
                  IN  /\ (ByKeys(seg) \/ ByPosition(seg)) =>
                            /\ b.start_frame = seg.start \div 2
                            /\ b.end_frame = seg.end \div 2
                      /\ ByAttributes(seg) =>
                            /\ b.start_frame = seg.astart \div 2
                            /\ b.end_frame = seg.aend \div 2

C14_Witness ==
    /\ xresult # NotExtracted
    /\ xsegments = <<Malformed, NamedPair(40, 80, 2, 4), DictNoKeys(TRUE, 6, 8)>>
    /\ Len(xresult.boundaries) = 2
    /\ xresult.boundaries[1].start_frame = 20
    /\ xresult.boundaries[2].end_frame = 4

\* C15: the arrays have one row per input frame and 543 points per row.
\* Every slot belongs to one block (body 0-32, face 33-500, left hand
\* 501-521, right hand 522-542) and is written by that block's group only:
\* it is zero in coordinates and confidence when the group is absent or has
\* no landmark for it, and holds the group's own landmark i at offset+i
\* otherwise; landmarks past the capacity are dropped and move nothing.
ZeroSlot(f, p) ==
    /\ etensor.data[f][p] = <<Zero, Zero, Zero>>
    /\ etensor.confidence[f][p] = Zero

C15_BlocksOnly ==
    (etensor # NotEncoded) =>
        /\ Len(etensor.data) = Len(eframes)
        /\ Len(etensor.confidence) = Len(eframes)
        /\ \A f \in 1..Len(eframes) :
              /\ DOMAIN etensor.data[f] = 0..542
              /\ DOMAIN etensor.confidence[f] = 0..542
              /\ \A g \in 1..4 :
                    LET blk == GroupsOf(eframes[f])[g]
                        lms == blk.group.landmarks
                    IN  \A i \in 0..(blk.capacity - 1) :
                           IF ~blk.group.present \/ i >= Len(lms)
                             THEN ZeroSlot(f, blk.offset + i)
                             ELSE lms[i + 1].truthy =>
                                    IsFloat32Of(
                                       etensor.data[f][blk.offset + i][1],
                                       Product(lms[i + 1].x, edims.width))

C15_Witness ==
    /\ etensor # NotEncoded
    /\ eframes[1].faceLandmarks.present
    /\ Len(eframes[1].faceLandmarks.landmarks) > 468
    /\ eframes[1].faceLandmarks.landmarks[469].truthy
    /\ ~eframes[1].leftHandLandmarks.present
    /\ etensor.confidence[1][500] # Zero
    /\ ZeroSlot(1, 501)
    /\ eframes[1].rightHandLandmarks.present
    /\ Len(eframes[1].rightHandLandmarks.landmarks) = 2
    /\ ZeroSlot(1, 524)

\* C16 (amended): for every non-empty landmark given at index i < capacity
\* of a present group the confidence slot holds the visibility rounded to
\* single precision when it is a number (0.0 for a visibility of 0.0), 1.0
\* when the landmark carries no visibility, and NaN when its visibility is
\* null; apart from a visibility of 0.0 the slot is 0.0 only for an absent
\* group, an index no landmark was given for, or an empty landmark.
Supplied(f, g, i) ==
    /\ GroupsOf(eframes[f])[g].group.present
    /\ i < Len(GroupsOf(eframes[f])[g].group.landmarks)

LandmarkAt(f, g, i) == GroupsOf(eframes[f])[g].group.landmarks[i + 1]

ConfidenceAt(f, g, i) ==
    etensor.confidence[f][GroupsOf(eframes[f])[g].offset + i]

IsHandle(r) == "id" \in DOMAIN r

Returned(k) ==
    {tret[t][i] : <<t, i>> \in
        {p \in Threads \X (1..MaxCalls + 1) :
            /\ p[2] <= Len(tret[p[1]])
            /\ IsHandle(tret[p[1]][p[2]])
            /\ tret[p[1]][p[2]].kind = k}}

C17_AtMostOnce ==
    \A k \in Kinds :
        /\ built[k] <= 1
        /\ Returned(k) # {} => Returned(k) = {cache[k]}

C17_Witness ==
    \E t \in Threads, u \in Threads :
        /\ t # u
        /\ tret[t] # <<>> /\ tret[u] # <<>>
        /\ IsHandle(tret[t][1]) /\ tret[u][Len(tret[u])] = tret[t][1]
        /\ built[tret[t][1].kind] = 1
        /\ tret[t][1].kind = "translator"
        /\ tcalls = 2 /\ \A v \in Threads : tpc[v] = "idle"

\* C18: a constructor that raises hands the error to the caller of that
\* attempt and leaves the cache as it was; the cache never holds anything but
\* a handle; and a getter called while the cache of its kind is empty goes to
\* the constructor again, whatever failed before.
C18_Step ==
    /\ \A t \in Threads :
          (tpc[t] = "construct" /\ tpc'[t] = "idle") =>
              /\ tret'[t] = Append(tret[t], ModelUnavailable(tkind[t]))
              /\ cache' = cache
    /\ \A k \in Kinds : cache'[k] = None \/ IsHandle(cache'[k])
    /\ \A t \in Threads :
          (tcalls' = tcalls + 1 /\ tpc[t] = "idle"
              /\ (tpc'[t] # "idle" \/ tret'[t] # tret[t])
              /\ cache[tkind'[t]] = None) =>
                  tpc'[t] = "construct"

C18_FailureNotCached == [][C18_Step]_vars

C18_Witness ==
    \E t \in Threads, k \in Kinds :
        /\ Len(tret[t]) = 2
        /\ tret[t][1] = ModelUnavailable(k)
        /\ IsHandle(tret[t][2]) /\ tret[t][2].kind = k
        /\ cache[k] = tret[t][2]
        /\ failed = 1 /\ built[k] = 1

\* C19 (as stated; violated): all the models the getters have constructed
\* are on one device, the one chosen at the first construction, even when
\* what get_device reports changes in between.
C19_OneDevice ==
    \A k \in GlobalKinds, h \in GlobalKinds :
        (cache[k] # None /\ cache[h] # None) =>
            cache[k].device = cache[h].device

\* C20 (amended): a translate run invokes its collaborators in the order
\* frames_to_pose, segment_pose, download_model / reduce_holistic,
\* preprocessing_signs / sw_translate, translate_signs, and then builds the
\* response: a stage starts when the one before it has completed, none is
\* repeated, and after a stage has raised nothing later is invoked.  A
\* successful run went through all of them, except that it ends right after
\* segment_pose when there is no SIGN segment and that the translation is
\* not called when transcription returned no string.  A finished run is a
\* success, a failure, or a rejection made before the first stage.
StageOrder ==
    <<"encoding", "segmentation", "normalization", "transcription",
      "translation", "assembly">>

StageCalls ==
    << <<"frames_to_pose">>, <<"segment_pose">>,
       <<"download_model", "reduce_holistic">>,
       <<"preprocessing_signs", "sw_translate">>,
       <<"translate_signs", "get_translator", "translate">>, <<>> >>

RECURSIVE Through(_)
Through(n) == IF n = 0 THEN <<>> ELSE Through(n - 1) \o StageCalls[n]

IsPrefix(a, b) == Len(a) <= Len(b) /\ a = SubSeq(b, 1, Len(a))

StageIndex(stage) == CHOOSE n \in 1..6 : StageOrder[n] = stage

\* The collaborators invoked once the handler stands before the given stage.
CallsBefore(pc) ==
    IF pc = "encode" THEN {Through(0)}
    ELSE IF pc = "segment" THEN {Through(1)}
    ELSE IF pc = "normalize" THEN {Through(2)}
    ELSE IF pc = "transcribe" THEN {Through(3)}
    ELSE IF pc = "translate" THEN {Through(4)}
    ELSE IF swlist = <<>> THEN {Through(4)} ELSE {Through(5)}

C20_StageOrder ==
    (req.ep = "translate") =>
        /\ IsPrefix(calls, Through(5))
        /\ ppc \in {"encode", "segment", "normalize", "transcribe",
                    "translate", "assemble"} =>
              (calls \in CallsBefore(ppc) /\ failedAt = "" /\ resp = None)
        /\ (ppc = "done" /\ failedAt = "") =>
              IF resp.status = "200"
                THEN \/ tiers.SIGN = <<>> /\ calls = Through(2)
                     \/ tiers.SIGN # <<>> /\ calls \in CallsBefore("assemble")
                ELSE resp.status = "400" /\ calls = <<>>
        /\ (ppc = "done" /\ failedAt # "") =>
              /\ resp.status = "500"
              /\ IF failedAt = "assembly"
                   THEN calls \in CallsBefore("assemble")
                   ELSE /\ IsPrefix(calls, Through(StageIndex(failedAt)))
                        /\ Len(calls) > Len(Through(StageIndex(failedAt) - 1))

C20_Witness ==
    /\ req.ep = "translate" /\ ppc = "done" /\ resp.status = "200"
    /\ calls = Through(5) /\ Len(resp.body.signs) = 2

\* C20 (as stated; violated): every successful translate run has gone
\* through all the stages, none skipped.
C20_Original ==
    (req.ep = "translate") =>
        /\ IsPrefix(calls, Through(5))
        /\ (ppc = "done" /\ resp.status = "200") => calls = Through(5)
        /\ (ppc = "done" /\ failedAt # "") => resp.status = "500"

\* The four boundary fields of a returned sign or sentence.
BoundaryOf(b) ==
    [start_frame |-> b.start_frame, end_frame |-> b.end_frame,
     start_time |-> b.start_time, end_time |-> b.end_time]

BoundariesOf(bs) == [i \in 1..Len(bs) |-> BoundaryOf(bs[i])]

\* The run ended because a collaborator raised, not because of the records.
FailedOutside == failedAt # "" /\ resp.msg \in {ExternalError, "ModelUnavailable"}

\* C21 (violated): once segment_pose has returned its tiers to
\* translate_endpoint and the run has ended without a collaborator raising,
\* the response is a success whose sign and sentence boundaries are the ones
\* _extract_segments gives segment_endpoint for the same tiers and fps,
\* whatever the shape of the records and whether or not their numbers are
\* whole.
C21_SameBoundaries ==
    (req.ep = "translate" /\ ppc = "done" /\ tiers # NoTiers
        /\ ~FailedOutside) =>
        /\ resp.status = "200"
        /\ BoundariesOf(resp.body.signs) = extract_segments(tiers.SIGN, req.fps)
        /\ BoundariesOf(resp.body.sentences)
              = extract_segments(tiers.SENTENCE, req.fps)

\* The texts of the returned signs, in order.
SignTexts(signs) == [i \in 1..Len(signs) |-> signs[i].text]

\* C22 (violated): in every successful translate response full_text is the
\* texts of the returned signs joined in order by one space, however many
\* strings the translation returned: nothing in full_text that no sign
\* carries, no sign text left out.
C22_FullText ==
    (req.ep = "translate" /\ ppc = "done" /\ resp.status = "200") =>
        resp.body.full_text = Join(SignTexts(resp.body.signs))

====
